---------------------------- MODULE Spec2Model ----------------------------
(***************************************************************************)
(* A model of src/sensor-metrics.py: the sampling loop that reads the      *)
(* BME280, the PMS5003, the gas sensor and the CPU thermal zone, averages  *)
(* five sub-samples and sets the Prometheus gauges.                        *)
(*                                                                         *)
(* Numbers.  The program computes with Python floats.  The model computes  *)
(* with exact rationals <<n, d>> in lowest terms (d > 0), so that `/`,     *)
(* `*`, `sum` and `round(x, 1)` are what they are on the reals; round is   *)
(* round-half-to-even, as Python's.  Binary floating-point error (around   *)
(* 1e-16 relative) is not modelled.                                        *)
(*                                                                         *)
(* Control.  pc names the statement about to execute; stack holds the      *)
(* return addresses of the calls in progress.  A failing device read       *)
(* raises; an exception no handler catches ends the process (pc =          *)
(* "terminated", exc the exception).                                       *)
(*                                                                         *)
(* Threads.  Spec and FairSpec are the main thread.  SpecScrape adds the   *)
(* thread start_http_server starts, which reads the gauges to answer a     *)
(* scrape while the main thread runs.  SpecHarness calls comp_temp and     *)
(* comp_humidity on their own, with any factor.                            *)
(***************************************************************************)
EXTENDS Integers, Sequences, FiniteSets, TLC

VARIABLES
    pc,            \* the statement about to execute
    stack,         \* return addresses of the calls in progress
    exc,           \* the uncaught exception that ended the process, or ""
    levels,        \* environment: how many distinct readings each device shows
                   \* (the one device that varies is also the one that may fault)
    \* read_values' locals
    temps, humidities, pressures, pm10s, pm2s, gos, grs, gns,
    i, gas_data, pm_values,
    \* comp_temp's / comp_humidity's parameter and locals, and the value returned
    factor, cpu_temp, raw_temp, retval,
    \* the Prometheus gauges
    gt, gh, gp, gp2, gp10, go, gr, gn,
    \* logging: the Systemd journal, stderr, the root logger's handlers
    journal, stderr, root_handlers,
    \* observation: the calls made since the current sub-sample (or harness
    \* call) began, and the gauge sets made since read_values was entered
    trace, gaugeSets,
    \* observation: the time.sleep calls and the pms5003.reset calls made since
    \* read_values was entered
    pauses, resets,
    \* observation: the five published gauges' values when gp10 was last set
    published,
    \* the HTTP server thread: the gauge values of the response it is serving,
    \* or None
    scraped,
    \* a compensation function called on its own: the previous call
    last

locals == <<temps, humidities, pressures, pm10s, pm2s, gos, grs, gns,
            i, gas_data, pm_values>>
frame  == <<factor, cpu_temp, raw_temp, retval>>
gauges == <<gt, gh, gp, gp2, gp10, go, gr, gn>>
logs   == <<journal, stderr, root_handlers>>
others == <<pauses, resets, published, scraped, last>>
vars   == <<pc, stack, exc, levels, locals, frame, gauges, logs, trace, gaugeSets,
            others>>

---------------------------------------------------------------------------
(* Bounds of the model. *)

\* distinct readings of the one device that varies during a run of the loop
Levels == 2
\* distinct readings of each device read by a compensation function called
\* on its own
HarnessLevels == 4

---------------------------------------------------------------------------
(* Exact rational arithmetic standing for Python's float arithmetic. *)

Abs(x) == IF x < 0 THEN -x ELSE x

RECURSIVE GCD(_, _)
GCD(a, b) == IF b = 0 THEN a ELSE GCD(b, a % b)

\* The only(S) idiom below binds an operand once, to its value: an operand
\* that is itself a nested computation is then evaluated once, not once per
\* use, whatever the mode TLC evaluates the formula in.
only(S) == CHOOSE v \in S : TRUE

\* the rational n/d (d # 0) in lowest terms with a positive denominator
Rat(n, d) ==
    only({ <<(s * a) \div g, (s * b) \div g>> :
             <<a, b, g, s>> \in { <<a, b, GCD(Abs(a), Abs(b)), IF b < 0 THEN -1 ELSE 1>> :
                                    <<a, b>> \in {<<n, d>>} } })

FromInt(n) == <<n, 1>>
Zero == FromInt(0)

RAdd(p, q) == only({ Rat(a[1] * b[2] + b[1] * a[2], a[2] * b[2]) : <<a, b>> \in {<<p, q>>} })
RSub(p, q) == only({ Rat(a[1] * b[2] - b[1] * a[2], a[2] * b[2]) : <<a, b>> \in {<<p, q>>} })
RMul(p, q) == only({ Rat(a[1] * b[1], a[2] * b[2]) : <<a, b>> \in {<<p, q>>} })
RDiv(p, q) == only({ Rat(a[1] * b[2], a[2] * b[1]) : <<a, b>> \in {<<p, q>>} })
RLeq(p, q) == \E <<a, b>> \in {<<p, q>>} : a[1] * b[2] <= b[1] * a[2]
RAbs(p)    == only({ <<Abs(a[1]), a[2]>> : a \in {p} })

\* Python's sum(xs): a left fold of + from 0
RECURSIVE sum(_)
sum(xs) == IF xs = <<>> THEN Zero
           ELSE RAdd(sum(SubSeq(xs, 1, Len(xs) - 1)), xs[Len(xs)])

\* Python's round(x, 1): the nearest multiple of 1/10, a tie going to the
\* even one
round1(x) ==
    only({ Rat(IF 2 * r < d THEN f
               ELSE IF 2 * r > d THEN f + 1
               ELSE IF f % 2 = 0 THEN f ELSE f + 1, 10) :
             <<f, r, d>> \in { <<(10 * y[1]) \div y[2], (10 * y[1]) % y[2], y[2]>> :
                                 y \in {x} } })

None == <<>>

---------------------------------------------------------------------------
(* Program constants. *)

temp_factor == Rat(9, 2)
humidity_factor == FromInt(20)
metrics_port == 8000
\* range(5)
SubSamples == 5
\* gas channels are divided by 1000, the thermal zone's integer too
GasScale == 1000
MilliScale == 1000
\* get_pressure() is multiplied by 100
PressureScale == 100

---------------------------------------------------------------------------
(* The devices.  Each read returns one of the device's possible readings   *)
(* or raises.  levels[d] tells how many distinct readings device d shows   *)
(* in this behaviour.                                                      *)

Devices == {"gas", "cpu", "temperature", "humidity", "pressure", "pms"}

Ks(d) == 0 .. (levels[d] - 1)

\* enviroplus.gas.read_all(): the three channels' resistances
GasReadings ==
    { [oxidising |-> FromInt(1500 + 500 * k),
       reducing  |-> FromInt(700 + 300 * k),
       nh3       |-> FromInt(300 + 100 * k)] : k \in Ks("gas") }

\* decimal digits of a natural number, as the kernel prints the thermal zone
RECURSIVE Digits(_)
Digits(n) == IF n < 10 THEN <<n>> ELSE Append(Digits(n \div 10), n % 10)

\* /sys/class/thermal/thermal_zone0/temp: millidegrees as decimal text; the
\* CPU is hotter than the sensor (30.0, 34.85) or, from the third reading on,
\* hardly warmer or cooler than it (20.3, 25.15, 10.6, ...)
ThermalZoneTexts ==
    { Digits(30000 + 4850 * (k % 2) - 9700 * (k \div 2)) : k \in Ks("cpu") }

\* Python's int(text) on decimal digits
RECURSIVE int(_)
int(text) == IF text = <<>> THEN 0
             ELSE 10 * int(SubSeq(text, 1, Len(text) - 1)) + text[Len(text)]

\* bme280.get_temperature(), degrees C
TemperatureReadings == { Rat(200 + 10 * k, 10) : k \in Ks("temperature") }
\* bme280.get_humidity(), %RH
HumidityReadings == { Rat(4512 + 137 * k, 100) : k \in Ks("humidity") }
\* bme280.get_pressure(), hPa
PressureReadings == { Rat(1013250 + 507 * k, 1000) : k \in Ks("pressure") }

\* pms5003.read(): the frame's PM1.0, PM2.5 and PM10 concentrations
PmReadings ==
    { [pm1 |-> FromInt(3 + k), pm2_5 |-> FromInt(5 + 2 * k),
       pm10 |-> FromInt(8 + 3 * k)] : k \in Ks("pms") }

\* PMS5003Data.pm_ug_per_m3(size)
pm_ug_per_m3(data, size) ==
    IF size = FromInt(10) THEN data.pm10
    ELSE IF size = Rat(5, 2) THEN data.pm2_5
    ELSE data.pm1

\* the exceptions read_values' handler names
TransientErrors == {"ReadTimeoutError", "ChecksumMismatchError"}
\* the exceptions pms5003.read() raises
PmErrors == TransientErrors \cup {"SerialTimeoutError"}
\* the exceptions pms5003.read() can raise in this behaviour: the particulate
\* sensor's faults belong to the behaviours in which it is the device that
\* varies; a steady sensor reads without error
PmFaults == IF levels["pms"] > 1 THEN PmErrors ELSE {}

\* one entry of trace: a call, how it ended, and what it returned (or was
\* passed, for the entry of a call to comp_temp or comp_humidity)
Call(op, val)   == [op |-> op, exc |-> "", val |-> val]
Raised(op, e)   == [op |-> op, exc |-> e, val |-> None]
Calls(op)       == SelectSeq(trace, LAMBDA c : c.op = op)

---------------------------------------------------------------------------
(* Logging: the logger 'bme280_sensor' has the JournalHandler and level    *)
(* INFO and propagates to the root logger; the root logger is left at its  *)
(* default level, WARNING, and gets a stderr handler from basicConfig()    *)
(* the first time a module-level logging function is called.               *)

LevelNo == [DEBUG |-> 10, INFO |-> 20, WARNING |-> 30, ERROR |-> 40]

LoggerLevel(logger) == IF logger = "root" THEN "WARNING" ELSE "INFO"

\* the handlers a record logged at `level` on `logger` reaches, the root
\* logger's handlers being `rh`
Handlers(logger, level, rh) ==
    IF LevelNo[level] < LevelNo[LoggerLevel(logger)] THEN {}
    ELSE IF logger = "root" THEN rh
    ELSE {"journal"} \cup rh

StartupMessage == <<"Serving sensor metrics on :", metrics_port>>
RetryMessage == <<"Failed to read PMS5003. Reseting and retrying.">>

\* the logger and the level of the retry message: logging.info(...)
RetryLogger == "root"
RetryLevel == "INFO"

---------------------------------------------------------------------------
(* Initial states. *)

InitProcess ==
    /\ stack = <<>>
    /\ exc = ""
    /\ temps = <<>> /\ humidities = <<>> /\ pressures = <<>>
    /\ pm10s = <<>> /\ pm2s = <<>>
    /\ gos = <<>> /\ grs = <<>> /\ gns = <<>>
    /\ i = -1
    /\ gas_data = None /\ pm_values = None
    /\ factor = None /\ cpu_temp = None /\ raw_temp = None /\ retval = None
    /\ gt = Zero /\ gh = Zero /\ gp = Zero /\ gp2 = Zero /\ gp10 = Zero
    /\ go = Zero /\ gr = Zero /\ gn = Zero
    /\ journal = <<>> /\ stderr = <<>> /\ root_handlers = {}
    /\ trace = <<>>
    /\ gaugeSets = 0
    /\ pauses = 0 /\ resets = 0
    /\ published = <<Zero, Zero, Zero, Zero, Zero>>
    /\ scraped = None
    /\ last = None

\* the program started as a script: one device's readings vary
Init ==
    /\ InitProcess
    /\ pc = "start_http_server"
    /\ levels \in { [d \in Devices |-> IF d = v THEN Levels ELSE 1] : v \in Devices }


\* a compensation function called on its own, with any factor
InitHarness ==
    /\ InitProcess
    /\ pc = "harness"
    /\ levels = [d \in Devices |->
                   IF d \in {"cpu", "temperature", "humidity"}
                   THEN HarnessLevels ELSE 1]

---------------------------------------------------------------------------
(* The pure parts of the program. *)

\* get_cpu_temperature: int(temp) / 1000.0
get_cpu_temperature(text) == Rat(int(text), MilliScale)

\* a variant of comp_temp that adds the correction instead of subtracting it
comp_temp_Added(raw, cpu, f) == round1(RAdd(raw, RDiv(RSub(cpu, raw), f)))

\* a variant of comp_temp that multiplies the difference by the factor
comp_temp_Multiplied(raw, cpu, f) == round1(RSub(raw, RMul(RSub(cpu, raw), f)))

\* comp_temp: raw_temp - ((cpu_temp - raw_temp) / factor), to 1dp
comp_temp(raw, cpu, f) == round1(RSub(raw, RDiv(RSub(cpu, raw), f)))

\* a variant of comp_humidity that takes its factor for a multiplier
comp_humidity_Multiplied(raw, f) == round1(RMul(raw, f))

\* comp_humidity: raw humidity + factor, to 1dp
comp_humidity(raw, f) == round1(RAdd(raw, f))

\* a variant of Average that rounds the mean to one decimal digit
Average_Rounded(xs) == round1(RDiv(sum(xs), FromInt(Len(xs))))

\* sum(xs) / len(xs)
Average(xs) == RDiv(sum(xs), FromInt(Len(xs)))

\* a variant of Caught: a handler that catches every error of the read
Caught_Everything == PmErrors

\* the exceptions the handler of line 91 catches
Caught == TransientErrors

---------------------------------------------------------------------------
(* Steps of the program. *)

\* an exception raised by call `op` that no handler catches: the process ends
Terminate(op, e) ==
    /\ pc' = "terminated"
    /\ exc' = e
    /\ trace' = Append(trace, Raised(op, e))
    /\ UNCHANGED <<stack, levels, others, locals, frame, gauges, logs, gaugeSets>>

\* start_http_server(metrics_port); print(...)
StartHttpServer ==
    /\ pc = "start_http_server"
    /\ pc' = "log_startup"
    /\ UNCHANGED <<stack, exc, levels, others, locals, frame, gauges, logs, trace, gaugeSets>>

\* log.info("Serving sensor metrics on :{}".format(metrics_port))
LogStartup ==
    /\ pc = "log_startup"
    /\ LET hs == Handlers("bme280_sensor", "INFO", root_handlers)
       IN  /\ journal' = IF "journal" \in hs THEN Append(journal, StartupMessage)
                         ELSE journal
           /\ stderr' = IF "stderr" \in hs THEN Append(stderr, StartupMessage)
                        ELSE stderr
    /\ pc' = "while_true"
    /\ UNCHANGED <<stack, exc, levels, others, locals, frame, gauges, root_handlers,
                   trace, gaugeSets>>

\* a variant of ReadValuesCall that clears the five gauges when a cycle starts
ReadValuesCall_ClearGauges ==
    /\ pc = "while_true"
    /\ stack' = <<"while_true">> \o stack
    /\ temps' = <<>> /\ humidities' = <<>> /\ pressures' = <<>>
    /\ pm10s' = <<>> /\ pm2s' = <<>>
    /\ gos' = <<>> /\ grs' = <<>> /\ gns' = <<>>
    /\ i' = -1
    /\ gas_data' = None /\ pm_values' = None
    /\ trace' = <<>>
    /\ gaugeSets' = 0
    /\ pauses' = 0 /\ resets' = 0
    /\ gt' = Zero /\ gh' = Zero /\ gp' = Zero /\ gp2' = Zero /\ gp10' = Zero
    /\ pc' = "for_i"
    /\ UNCHANGED <<exc, levels, published, scraped, last, frame, go, gr, gn, logs>>

\* while True: read_values() -- the call, and the eight empty lists
ReadValuesCall ==
    /\ pc = "while_true"
    /\ stack' = <<"while_true">> \o stack
    /\ temps' = <<>> /\ humidities' = <<>> /\ pressures' = <<>>
    /\ pm10s' = <<>> /\ pm2s' = <<>>
    /\ gos' = <<>> /\ grs' = <<>> /\ gns' = <<>>
    /\ i' = -1
    /\ gas_data' = None /\ pm_values' = None
    /\ trace' = <<>>
    /\ gaugeSets' = 0
    /\ pauses' = 0 /\ resets' = 0
    /\ pc' = "for_i"
    /\ UNCHANGED <<exc, levels, published, scraped, last, frame, gauges, logs>>

\* a variant of ForLoop that runs one sub-sample too many
ForLoop_OffByOne ==
    /\ pc = "for_i"
    /\ IF i + 1 <= SubSamples
       THEN /\ i' = i + 1
            /\ trace' = <<>>
            /\ pc' = "gas_read_all"
       ELSE /\ pc' = "set_gt"
            /\ UNCHANGED <<i, trace>>
    /\ UNCHANGED <<stack, exc, levels, others, temps, humidities, pressures, pm10s, pm2s,
                   gos, grs, gns, gas_data, pm_values, frame, gauges, logs,
                   gaugeSets>>

\* for i in range(5): the next sub-sample, or the end of the loop
ForLoop ==
    /\ pc = "for_i"
    /\ IF i + 1 < SubSamples
       THEN /\ i' = i + 1
            /\ trace' = <<>>
            /\ pc' = "gas_read_all"
       ELSE /\ pc' = "set_gt"
            /\ UNCHANGED <<i, trace>>
    /\ UNCHANGED <<stack, exc, levels, others, temps, humidities, pressures, pm10s, pm2s,
                   gos, grs, gns, gas_data, pm_values, frame, gauges, logs,
                   gaugeSets>>

\* gas_data = gas.read_all() and the three appends
GasReadAll ==
    /\ pc = "gas_read_all"
    /\ \/ \E r \in GasReadings :
            /\ gas_data' = r
            /\ gos' = Append(gos, RDiv(r.oxidising, FromInt(GasScale)))
            /\ grs' = Append(grs, RDiv(r.reducing, FromInt(GasScale)))
            /\ gns' = Append(gns, RDiv(r.nh3, FromInt(GasScale)))
            /\ trace' = Append(trace, Call("gas.read_all", r))
            /\ pc' = "comp_temp"
            /\ UNCHANGED <<stack, exc, levels, others, temps, humidities, pressures,
                           pm10s, pm2s, i, pm_values, frame, gauges, logs,
                           gaugeSets>>
       \/ Terminate("gas.read_all", "OSError")

\* comp_temp(temp_factor): the call
CompTempCall ==
    /\ pc = "comp_temp"
    /\ factor' = temp_factor
    /\ stack' = <<"temps_append">> \o stack
    /\ trace' = Append(trace, Call("comp_temp", temp_factor))
    /\ pc' = "get_cpu_temperature"
    /\ UNCHANGED <<exc, levels, others, locals, cpu_temp, raw_temp, retval, gauges, logs,
                   gaugeSets>>

\* cpu_temp = get_cpu_temperature()
GetCpuTemperature ==
    /\ pc = "get_cpu_temperature"
    /\ \/ \E text \in ThermalZoneTexts :
            /\ cpu_temp' = get_cpu_temperature(text)
            /\ trace' = Append(trace, Call("get_cpu_temperature",
                                           get_cpu_temperature(text)))
            /\ pc' = "get_temperature"
            /\ UNCHANGED <<stack, exc, levels, others, locals, factor, raw_temp, retval,
                           gauges, logs, gaugeSets>>
       \/ Terminate("get_cpu_temperature", "OSError")

\* raw_temp = bme280.get_temperature()
GetTemperature ==
    /\ pc = "get_temperature"
    /\ \/ \E r \in TemperatureReadings :
            /\ raw_temp' = r
            /\ trace' = Append(trace, Call("bme280.get_temperature", r))
            /\ pc' = "comp_temp_return"
            /\ UNCHANGED <<stack, exc, levels, others, locals, factor, cpu_temp, retval,
                           gauges, logs, gaugeSets>>
       \/ Terminate("bme280.get_temperature", "OSError")

\* comp_temp = ...; return round(comp_temp, 1)
CompTempReturn ==
    /\ pc = "comp_temp_return"
    /\ retval' = comp_temp(raw_temp, cpu_temp, factor)
    /\ factor' = None /\ cpu_temp' = None /\ raw_temp' = None
    /\ pc' = Head(stack)
    /\ stack' = Tail(stack)
    /\ UNCHANGED <<exc, levels, others, locals, gauges, logs, trace, gaugeSets>>

\* temps.append(<the value comp_temp returned>)
TempsAppend ==
    /\ pc = "temps_append"
    /\ temps' = Append(temps, retval)
    /\ retval' = None
    /\ pc' = "comp_humidity"
    /\ UNCHANGED <<stack, exc, levels, others, humidities, pressures, pm10s, pm2s, gos,
                   grs, gns, i, gas_data, pm_values, factor, cpu_temp, raw_temp,
                   gauges, logs, trace, gaugeSets>>

\* comp_humidity(humidity_factor): the call
CompHumidityCall ==
    /\ pc = "comp_humidity"
    /\ factor' = humidity_factor
    /\ stack' = <<"humidities_append">> \o stack
    /\ trace' = Append(trace, Call("comp_humidity", humidity_factor))
    /\ pc' = "get_humidity"
    /\ UNCHANGED <<exc, levels, others, locals, cpu_temp, raw_temp, retval, gauges, logs,
                   gaugeSets>>

\* comp_humidity = (bme280.get_humidity() + factor); return round(comp_humidity, 1)
GetHumidity ==
    /\ pc = "get_humidity"
    /\ \/ \E r \in HumidityReadings :
            /\ retval' = comp_humidity(r, factor)
            /\ factor' = None
            /\ trace' = Append(trace, Call("bme280.get_humidity", r))
            /\ pc' = Head(stack)
            /\ stack' = Tail(stack)
            /\ UNCHANGED <<exc, levels, others, locals, cpu_temp, raw_temp, gauges, logs,
                           gaugeSets>>
       \/ Terminate("bme280.get_humidity", "OSError")

\* humidities.append(<the value comp_humidity returned>)
HumiditiesAppend ==
    /\ pc = "humidities_append"
    /\ humidities' = Append(humidities, retval)
    /\ retval' = None
    /\ pc' = "get_pressure"
    /\ UNCHANGED <<stack, exc, levels, others, temps, pressures, pm10s, pm2s, gos, grs,
                   gns, i, gas_data, pm_values, factor, cpu_temp, raw_temp,
                   gauges, logs, trace, gaugeSets>>

\* a variant of GetPressure that appends the pressure as the sensor read it
GetPressure_Unscaled ==
    /\ pc = "get_pressure"
    /\ \/ \E r \in PressureReadings :
            /\ pressures' = Append(pressures, r)
            /\ trace' = Append(trace, Call("bme280.get_pressure", r))
            /\ pc' = "pms_read"
            /\ UNCHANGED <<stack, exc, levels, others, temps, humidities, pm10s, pm2s,
                           gos, grs, gns, i, gas_data, pm_values, frame, gauges,
                           logs, gaugeSets>>
       \/ Terminate("bme280.get_pressure", "OSError")

\* pressures.append(bme280.get_pressure() * 100)
GetPressure ==
    /\ pc = "get_pressure"
    /\ \/ \E r \in PressureReadings :
            /\ pressures' = Append(pressures, RMul(r, FromInt(PressureScale)))
            /\ trace' = Append(trace, Call("bme280.get_pressure", r))
            /\ pc' = "pms_read"
            /\ UNCHANGED <<stack, exc, levels, others, temps, humidities, pm10s, pm2s,
                           gos, grs, gns, i, gas_data, pm_values, frame, gauges,
                           logs, gaugeSets>>
       \/ Terminate("bme280.get_pressure", "OSError")

\* a variant of PmAppend that leaves out the PM2.5 append
PmAppend_Pm10Only(r) ==
    /\ pm_values' = r
    /\ pm10s' = Append(pm10s, pm_ug_per_m3(r, FromInt(10)))
    /\ trace' = Append(trace, Call("pms5003.read", r))
    /\ pc' = "sleep"
    /\ UNCHANGED <<stack, exc, levels, others, temps, humidities, pressures, pm2s, gos,
                   grs, gns, i, gas_data, frame, gauges, logs, gaugeSets>>

\* pm_values = pms5003.read() succeeded, and the two appends that follow it
PmAppend(r) ==
    /\ pm_values' = r
    /\ pm10s' = Append(pm10s, pm_ug_per_m3(r, FromInt(10)))
    /\ pm2s' = Append(pm2s, pm_ug_per_m3(r, Rat(5, 2)))
    /\ trace' = Append(trace, Call("pms5003.read", r))
    /\ pc' = "sleep"
    /\ UNCHANGED <<stack, exc, levels, others, temps, humidities, pressures, gos, grs,
                   gns, i, gas_data, frame, gauges, logs, gaugeSets>>

\* a variant of PmsRead with a retry budget of one per cycle: once a reset was
\* issued in the cycle, a transient error of a first read is not handled
PmsRead_CycleBudget ==
    /\ pc = "pms_read"
    /\ \/ \E r \in PmReadings : PmAppend(r)
       \/ \E e \in PmFaults \cap Caught :
            IF resets = 0
            THEN /\ trace' = Append(trace, Raised("pms5003.read", e))
                 /\ pc' = "except_log"
                 /\ UNCHANGED <<stack, exc, levels, others, locals, frame, gauges,
                                logs, gaugeSets>>
            ELSE Terminate("pms5003.read", e)
       \/ \E e \in PmFaults \ Caught : Terminate("pms5003.read", e)

\* try: pm_values = pms5003.read(); the appends
\* except (ReadTimeoutError, ChecksumMismatchError): enter the handler
PmsRead ==
    /\ pc = "pms_read"
    /\ \/ \E r \in PmReadings : PmAppend(r)
       \/ \E e \in PmFaults \cap Caught :
            /\ trace' = Append(trace, Raised("pms5003.read", e))
            /\ pc' = "except_log"
            /\ UNCHANGED <<stack, exc, levels, others, locals, frame, gauges, logs,
                           gaugeSets>>
       \/ \E e \in PmFaults \ Caught : Terminate("pms5003.read", e)

\* logging.info("Failed to read PMS5003. Reseting and retrying."): a
\* module-level logging call configures the root logger if it has no handler
ExceptLog ==
    /\ pc = "except_log"
    /\ root_handlers' = IF RetryLogger = "root" /\ root_handlers = {}
                        THEN {"stderr"} ELSE root_handlers
    /\ LET hs == Handlers(RetryLogger, RetryLevel, root_handlers')
       IN  /\ journal' = IF "journal" \in hs THEN Append(journal, RetryMessage)
                         ELSE journal
           /\ stderr' = IF "stderr" \in hs THEN Append(stderr, RetryMessage)
                        ELSE stderr
    /\ pc' = "pms_reset"
    /\ UNCHANGED <<stack, exc, levels, others, locals, frame, gauges, trace, gaugeSets>>

\* a variant of PmsReset: a handler that retries without resetting the device
PmsReset_Skipped ==
    /\ pc = "pms_reset"
    /\ pc' = "pms_reread"
    /\ UNCHANGED <<stack, exc, levels, others, locals, frame, gauges, logs, trace,
                   gaugeSets>>

\* pms5003.reset()
PmsReset ==
    /\ pc = "pms_reset"
    /\ trace' = Append(trace, Call("pms5003.reset", None))
    /\ resets' = resets + 1
    /\ pc' = "pms_reread"
    /\ UNCHANGED <<stack, exc, levels, pauses, published, scraped, last, locals,
                   frame, gauges, logs, gaugeSets>>

\* a variant of PmsReread: a retry that is itself retried on a transient error
PmsReread_RetryAgain ==
    /\ pc = "pms_reread"
    /\ \/ \E r \in PmReadings : PmAppend(r)
       \/ \E e \in PmFaults \cap Caught :
            /\ trace' = Append(trace, Raised("pms5003.read", e))
            /\ pc' = "except_log"
            /\ UNCHANGED <<stack, exc, levels, others, locals, frame, gauges, logs,
                           gaugeSets>>
       \/ \E e \in PmFaults \ Caught : Terminate("pms5003.read", e)

\* a variant of PmAppend for a handler that ends with `continue`: the retried
\* sub-sample goes on to the next one without sleeping
PmAppend_Continue(r) ==
    /\ pm_values' = r
    /\ pm10s' = Append(pm10s, pm_ug_per_m3(r, FromInt(10)))
    /\ pm2s' = Append(pm2s, pm_ug_per_m3(r, Rat(5, 2)))
    /\ trace' = Append(trace, Call("pms5003.read", r))
    /\ pc' = "for_i"
    /\ UNCHANGED <<stack, exc, levels, others, temps, humidities, pressures, gos, grs,
                   gns, i, gas_data, frame, gauges, logs, gaugeSets>>

\* a variant of PmsReread whose sub-sample skips the pause
PmsReread_NoPause ==
    /\ pc = "pms_reread"
    /\ \/ \E r \in PmReadings : PmAppend_Continue(r)
       \/ \E e \in PmFaults : Terminate("pms5003.read", e)

\* a variant of PmsReread inside a retry loop: a transient failure of the
\* retry resets the device and reads again
PmsReread_Looping ==
    /\ pc = "pms_reread"
    /\ \/ \E r \in PmReadings : PmAppend(r)
       \/ \E e \in PmFaults \cap Caught :
            /\ trace' = Append(trace, Raised("pms5003.read", e))
            /\ pc' = "pms_reset"
            /\ UNCHANGED <<stack, exc, levels, others, locals, frame, gauges, logs,
                           gaugeSets>>
       \/ \E e \in PmFaults \ Caught : Terminate("pms5003.read", e)

\* in the handler: pm_values = pms5003.read() and the appends; nothing
\* catches an exception raised here
PmsReread ==
    /\ pc = "pms_reread"
    /\ \/ \E r \in PmReadings : PmAppend(r)
       \/ \E e \in PmFaults : Terminate("pms5003.read", e)

\* time.sleep(1)
Sleep ==
    /\ pc = "sleep"
    /\ trace' = Append(trace, Call("time.sleep", FromInt(1)))
    /\ pauses' = pauses + 1
    /\ pc' = "for_i"
    /\ UNCHANGED <<stack, exc, levels, resets, published, scraped, last, locals,
                   frame, gauges, logs, gaugeSets>>

\* a variant of SetGt that adds the mean to the gauge, as Gauge.inc would
SetGt_Accumulating ==
    /\ pc = "set_gt"
    /\ gt' = RAdd(gt, Average(temps))
    /\ gaugeSets' = gaugeSets + 1
    /\ pc' = "set_gh"
    /\ UNCHANGED <<stack, exc, levels, others, locals, frame, gh, gp, gp2, gp10, go, gr,
                   gn, logs, trace>>

\* gt.set(sum(temps)/len(temps))
SetGt ==
    /\ pc = "set_gt"
    /\ gt' = Average(temps)
    /\ gaugeSets' = gaugeSets + 1
    /\ pc' = "set_gh"
    /\ UNCHANGED <<stack, exc, levels, others, locals, frame, gh, gp, gp2, gp10, go, gr,
                   gn, logs, trace>>

\* a variant of SetGh that smooths the gauge: the mean of the cycle's values
\* and the value the gauge holds from the cycle before
SetGh_Smoothed ==
    /\ pc = "set_gh"
    /\ gh' = Average(<<gh>> \o humidities)
    /\ gaugeSets' = gaugeSets + 1
    /\ pc' = "set_gp"
    /\ UNCHANGED <<stack, exc, levels, others, locals, frame, gt, gp, gp2, gp10, go, gr,
                   gn, logs, trace>>

\* gh.set(sum(humidities)/len(humidities))
SetGh ==
    /\ pc = "set_gh"
    /\ gh' = Average(humidities)
    /\ gaugeSets' = gaugeSets + 1
    /\ pc' = "set_gp"
    /\ UNCHANGED <<stack, exc, levels, others, locals, frame, gt, gp, gp2, gp10, go, gr,
                   gn, logs, trace>>

\* gp.set(sum(pressures)/len(pressures))
SetGp ==
    /\ pc = "set_gp"
    /\ gp' = Average(pressures)
    /\ gaugeSets' = gaugeSets + 1
    /\ pc' = "set_gp2"
    /\ UNCHANGED <<stack, exc, levels, others, locals, frame, gt, gh, gp2, gp10, go, gr,
                   gn, logs, trace>>

\* a variant of SetGp2 that publishes the PM10 mean as shop_PM2
SetGp2_FromPm10s ==
    /\ pc = "set_gp2"
    /\ gp2' = Average(pm10s)
    /\ gaugeSets' = gaugeSets + 1
    /\ pc' = "set_gp10"
    /\ UNCHANGED <<stack, exc, levels, others, locals, frame, gt, gh, gp, gp10, go, gr,
                   gn, logs, trace>>

\* gp2.set(sum(pm2s)/len(pm2s))
SetGp2 ==
    /\ pc = "set_gp2"
    /\ gp2' = Average(pm2s)
    /\ gaugeSets' = gaugeSets + 1
    /\ pc' = "set_gp10"
    /\ UNCHANGED <<stack, exc, levels, others, locals, frame, gt, gh, gp, gp10, go, gr,
                   gn, logs, trace>>

\* a variant of SetGp10 that goes on to publish the three gas means
SetGp10_AndGas ==
    /\ pc = "set_gp10"
    /\ gp10' = Average(pm10s)
    /\ go' = Average(gos) /\ gr' = Average(grs) /\ gn' = Average(gns)
    /\ gaugeSets' = gaugeSets + 1
    /\ published' = <<gt, gh, gp, gp2, gp10'>>
    /\ pc' = "read_values_return"
    /\ UNCHANGED <<stack, exc, levels, pauses, resets, scraped, last, locals,
                   frame, gt, gh, gp, gp2, logs, trace>>

\* gp10.set(sum(pm10s)/len(pm10s))
SetGp10 ==
    /\ pc = "set_gp10"
    /\ gp10' = Average(pm10s)
    /\ gaugeSets' = gaugeSets + 1
    /\ published' = <<gt, gh, gp, gp2, gp10'>>
    /\ pc' = "read_values_return"
    /\ UNCHANGED <<stack, exc, levels, pauses, resets, scraped, last, locals,
                   frame, gt, gh, gp, gp2, go, gr, gn, logs, trace>>

\* a variant of ReadValuesReturn: read_values called once, not in a loop, so
\* that the script ends when it returns
ReadValuesReturn_Exit ==
    /\ pc = "read_values_return"
    /\ temps' = <<>> /\ humidities' = <<>> /\ pressures' = <<>>
    /\ pm10s' = <<>> /\ pm2s' = <<>>
    /\ gos' = <<>> /\ grs' = <<>> /\ gns' = <<>>
    /\ i' = -1
    /\ gas_data' = None /\ pm_values' = None
    /\ trace' = <<>>
    /\ pc' = "exited"
    /\ stack' = <<>>
    /\ UNCHANGED <<exc, levels, others, frame, gauges, logs, gaugeSets>>

\* read_values returns: its locals are gone
ReadValuesReturn ==
    /\ pc = "read_values_return"
    /\ temps' = <<>> /\ humidities' = <<>> /\ pressures' = <<>>
    /\ pm10s' = <<>> /\ pm2s' = <<>>
    /\ gos' = <<>> /\ grs' = <<>> /\ gns' = <<>>
    /\ i' = -1
    /\ gas_data' = None /\ pm_values' = None
    /\ trace' = <<>>
    /\ pc' = Head(stack)
    /\ stack' = Tail(stack)
    /\ UNCHANGED <<exc, levels, others, frame, gauges, logs, gaugeSets>>

Next ==
    \/ StartHttpServer \/ LogStartup
    \/ ReadValuesCall \/ ForLoop
    \/ GasReadAll
    \/ CompTempCall \/ GetCpuTemperature \/ GetTemperature \/ CompTempReturn
    \/ TempsAppend
    \/ CompHumidityCall \/ GetHumidity \/ HumiditiesAppend
    \/ GetPressure
    \/ PmsRead \/ ExceptLog \/ PmsReset \/ PmsReread
    \/ Sleep
    \/ SetGt \/ SetGh \/ SetGp \/ SetGp2 \/ SetGp10
    \/ ReadValuesReturn

Spec == Init /\ [][Next]_vars

\* the main thread runs whenever it can: no statement blocks forever (device
\* reads time out by raising)
FairSpec == Spec /\ WF_vars(Next)

---------------------------------------------------------------------------
(* The metrics endpoint. start_http_server(metrics_port) starts a daemon    *)
(* thread that serves scrapes while the main thread runs read_values; the   *)
(* thread ends with the process.                                            *)

\* a scrape: the server thread reads the gauges between two steps of the
\* main thread; `scraped` is what its response holds of the five gauges
\* read_values sets
Scrape ==
    /\ pc \notin {"start_http_server", "terminated"}
    /\ scraped = None
    /\ scraped' = <<gt, gh, gp, gp2, gp10>>
    /\ UNCHANGED <<pc, stack, exc, levels, pauses, resets, published, last, locals,
                   frame, gauges, logs, trace, gaugeSets>>

\* the response has been sent
ScrapeDone ==
    /\ scraped # None
    /\ scraped' = None
    /\ UNCHANGED <<pc, stack, exc, levels, pauses, resets, published, last, locals,
                   frame, gauges, logs, trace, gaugeSets>>

\* the main thread and the server thread
NextScrape ==
    \/ scraped = None /\ Next
    \/ Scrape
    \/ ScrapeDone

SpecScrape == Init /\ [][NextScrape]_vars

---------------------------------------------------------------------------

(* The compensation functions called on their own. *)

\* factors a caller may pass to comp_temp (never 0)
Factors == { Rat(-2, 1), Rat(1, 2), FromInt(1), temp_factor, FromInt(10) }
\* offsets a caller may pass to comp_humidity
Offsets == { FromInt(0), humidity_factor, Rat(-51, 4), Rat(7, 20) }

HarnessCompTemp ==
    /\ pc = "harness"
    /\ \E f \in Factors :
         /\ factor' = f
         /\ trace' = <<Call("comp_temp", f)>>
    /\ stack' = <<"harness_return">>
    /\ pc' = "get_cpu_temperature"
    /\ UNCHANGED <<exc, levels, others, locals, cpu_temp, raw_temp, retval, gauges, logs,
                   gaugeSets>>

HarnessCompHumidity ==
    /\ pc = "harness"
    /\ \E f \in Offsets :
         /\ factor' = f
         /\ trace' = <<Call("comp_humidity", f)>>
    /\ stack' = <<"harness_return">>
    /\ pc' = "get_humidity"
    /\ UNCHANGED <<exc, levels, others, locals, cpu_temp, raw_temp, retval, gauges, logs,
                   gaugeSets>>

\* the caller has the value returned; it keeps the call (what it passed, what
\* the devices read, what came back) to compare the next call with
HarnessReturn ==
    /\ pc = "harness_return"
    /\ last' = Append(trace, Call("return", retval))
    /\ retval' = None
    /\ trace' = <<>>
    /\ pc' = "harness"
    /\ UNCHANGED <<stack, exc, levels, pauses, resets, published, scraped, locals,
                   factor, cpu_temp, raw_temp, gauges, logs, gaugeSets>>

NextHarness ==
    \/ HarnessCompTemp \/ HarnessCompHumidity \/ HarnessReturn
    \/ GetCpuTemperature \/ GetTemperature \/ CompTempReturn
    \/ GetHumidity

SpecHarness == InitHarness /\ [][NextHarness]_vars

---------------------------------------------------------------------------
(* Vocabulary of the properties. *)

Last(xs) == xs[Len(xs)]

\* x has at most one decimal digit
IsTenth(x) == (10 * x[1]) % x[2] = 0

\* |x - y| <= 1/20: y is within half a tenth of x
WithinHalfTenth(x, y) == RLeq(RAbs(RSub(x, y)), Rat(1, 20))

\* all five gauges have been set and read_values has not returned yet
Published == pc = "read_values_return"

\* the statements that average a list and set a gauge
PublishSteps == {"set_gt", "set_gh", "set_gp", "set_gp2", "set_gp10"}

Sequences8 == <<temps, humidities, pressures, pm10s, pm2s, gos, grs, gns>>

PmReads  == Calls("pms5003.read")
PmResets == Calls("pms5003.reset")

\* the current sub-sample's first particulate read raised a transient error
\* and its second read succeeded
Retried ==
    /\ Len(PmReads) = 2
    /\ PmReads[1].exc \in TransientErrors
    /\ PmReads[2].exc = ""

---------------------------------------------------------------------------
(* C1 *)

\* C1, as claimed: once a cycle's gauges are set, shop_temperature and
\* shop_humidity hold the mean of the 5 compensated values rounded to one
\* decimal digit.
C1_MeanRoundedToOneDecimal ==
    Published =>
        /\ IsTenth(gt) /\ WithinHalfTenth(Average(temps), gt)
        /\ IsTenth(gh) /\ WithinHalfTenth(Average(humidities), gh)

\* C1, amended: once a cycle's gauges are set, shop_temperature and
\* shop_humidity hold the exact (unrounded) mean of the 5 compensated values;
\* it is each compensated value that has one decimal digit, not the mean.
C1_MeanOfRoundedValues ==
    Published =>
        /\ Len(temps) = 5 /\ Len(humidities) = 5
        /\ \A k \in 1..5 : IsTenth(temps[k]) /\ IsTenth(humidities[k])
        /\ RMul(gt, FromInt(5)) = sum(temps)
        /\ RMul(gh, FromInt(5)) = sum(humidities)

\* a published temperature mean with more than one decimal digit
C1_Witness == Published /\ ~IsTenth(gt) /\ temps[1] # temps[2]

---------------------------------------------------------------------------
(* C2 *)

\* C2: once a cycle's gauges are set, shop_pressure, shop_PM2 and shop_PM10
\* hold sum/5 of the cycle's 5 pressures, PM2.5 values and PM10 values, not
\* rounded; and what each sub-sample appended to pm2s is its read's PM2.5,
\* to pm10s its PM10, to pressures its pressure.
C2_UnroundedMeans ==
    /\ Published =>
        /\ Len(pressures) = 5 /\ Len(pm2s) = 5 /\ Len(pm10s) = 5
        /\ RMul(gp, FromInt(5)) = sum(pressures)
        /\ RMul(gp2, FromInt(5)) = sum(pm2s)
        /\ RMul(gp10, FromInt(5)) = sum(pm10s)
    /\ pc = "sleep" =>
        /\ Last(pm2s) = Last(PmReads).val.pm2_5
        /\ Last(pm10s) = Last(PmReads).val.pm10
        /\ Last(pressures) =
             RMul(Last(Calls("bme280.get_pressure")).val, FromInt(100))

\* a published pressure mean that rounding to one decimal would have changed
C2_Witness == Published /\ ~IsTenth(gp) /\ gp2 # gp10

---------------------------------------------------------------------------
(* C3 *)

\* C3: when a sub-sample's first particulate read raised a transient error
\* and its second read succeeded, exactly one reset was issued, after the
\* failure and before the second read; the PM10 and PM2.5 values appended
\* are the second read's; and the sub-sample goes on (nothing was raised
\* out of read_values, one value per list was appended).
C3_RetryOnce ==
    Retried =>
        /\ Len(PmResets) = 1
        /\ \E j \in 1..(Len(trace) - 2) :
             /\ trace[j] = PmReads[1]
             /\ trace[j + 1].op = "pms5003.reset"
             /\ trace[j + 2] = PmReads[2]
        /\ Last(pm10s) = PmReads[2].val.pm10
        /\ Last(pm2s) = PmReads[2].val.pm2_5
        /\ Len(pm10s) = i + 1 /\ Len(pm2s) = i + 1
        /\ pc # "terminated" /\ exc = ""

\* a retried sub-sample whose second read differs from the previous
\* sub-sample's read
C3_Witness ==
    /\ Retried /\ pc = "sleep" /\ i >= 1
    /\ pm10s[i + 1] # pm10s[i]

---------------------------------------------------------------------------
(* C4 *)

\* C4: when a sub-sample's first two particulate reads both raised a
\* transient error, the process has ended with the second exception, one
\* reset and two reads were made in the sub-sample, the failed second read
\* is its last call, and no gauge was set in the cycle.
C4_DoubleFailure ==
    (/\ Len(PmReads) >= 2
     /\ PmReads[1].exc \in TransientErrors
     /\ PmReads[2].exc \in TransientErrors) =>
        /\ pc = "terminated"
        /\ exc = PmReads[2].exc
        /\ Len(PmResets) = 1
        /\ Len(PmReads) = 2
        /\ Last(trace) = PmReads[2]
        /\ gaugeSets = 0

\* two checksum mismatches in a row, in a cycle that follows a completed one
C4_Witness ==
    /\ pc = "terminated"
    /\ Len(PmReads) = 2
    /\ PmReads[1].exc = "ChecksumMismatchError"
    /\ PmReads[2].exc = "ChecksumMismatchError"
    /\ gp10 # Zero

---------------------------------------------------------------------------
(* C5 *)

\* C5: whenever read_values is at one of its five average-and-set
\* statements, each of the 8 lists has exactly 5 elements.
C5_FiveElements ==
    pc \in PublishSteps => \A k \in 1..8 : Len(Sequences8[k]) = 5

\* averaging begins after a cycle whose last sub-sample went through the
\* reset-and-retry
C5_Witness == pc = "set_gt" /\ Retried

---------------------------------------------------------------------------
(* C6 *)

\* the call raised, and it is not a transient error of a sub-sample's first
\* particulate read, nor the read of the retry
FatalCall(c) ==
    /\ c.exc # ""
    /\ c.op = "pms5003.read" => c.exc \notin TransientErrors /\ Len(PmReads) = 1

\* C6: once a gas read, a CPU thermal-zone read, a BME280 read, or a first
\* particulate read failing with an error the handler does not name, has
\* raised, the process has ended with that exception; the failed call is
\* the sub-sample's last call and was made once (no retry), no reset was
\* issued, and no gauge was set in the cycle.
C6_FatalFailure ==
    \A j \in 1..Len(trace) :
        FatalCall(trace[j]) =>
            /\ pc = "terminated"
            /\ exc = trace[j].exc
            /\ j = Len(trace)
            /\ Len(Calls(trace[j].op)) = 1
            /\ PmResets = <<>>
            /\ gaugeSets = 0

\* the thermal-zone file becomes unreadable in a cycle that follows a
\* completed one
C6_Witness ==
    /\ pc = "terminated"
    /\ Last(trace).op = "get_cpu_temperature"
    /\ i = 3
    /\ gt # Zero

---------------------------------------------------------------------------
(* C7 *)

\* C7: shop_oxidised, shop_reduced and shop_nh3 always hold their initial
\* value 0, though every sub-sample appends one value to each gas list;
\* a cycle makes five gauge sets, which are those of the other five gauges.
C7_GasGaugesNeverSet ==
    /\ go = Zero /\ gr = Zero /\ gn = Zero
    /\ pc = "sleep" => Len(gos) = i + 1 /\ Len(grs) = i + 1 /\ Len(gns) = i + 1
    /\ gaugeSets <= 5
    /\ Published => gaugeSets = 5

\* a second cycle is about to publish: the gas lists hold non-zero values
C7_Witness ==
    /\ pc = "set_gt" /\ gt # Zero
    /\ Len(gos) = 5 /\ Average(gos) # Zero
    /\ Average(grs) # Zero /\ Average(gns) # Zero

---------------------------------------------------------------------------
(* C8 *)

\* C8: unless the process is ended by an uncaught exception (which is for
\* good: nothing runs after it), the gauges are published infinitely often
\* and a new cycle is started infinitely often.
C8_LoopsForever ==
    /\ []<>(pc = "terminated" \/ Published)
    /\ []<>(pc = "terminated" \/ (pc = "for_i" /\ i = -1))

\* a cycle after the first is published, its last sub-sample having retried
C8_Witness == Published /\ Retried /\ stack = <<"while_true">> /\ journal # <<>>

---------------------------------------------------------------------------
(* C9 *)

\* C9, as claimed: when the reset of a retry is about to be issued, the
\* retry's log line is the last line written to the journal.
C9_RetryLoggedToJournal ==
    pc = "pms_reset" => journal # <<>> /\ Last(journal) = RetryMessage

---------------------------------------------------------------------------
(* C10 *)

\* the call of comp_temp in progress or just returned: its factor and the
\* reads it made
CompTempCalls == Calls("comp_temp")
CpuReads == Calls("get_cpu_temperature")
TempReads == Calls("bme280.get_temperature")

\* C10: when comp_temp(factor) has returned, for any factor # 0, it made
\* exactly one CPU-temperature read and one sensor-temperature read, and
\* what it returned is raw - (cpu - raw) / factor rounded to one decimal
\* digit: a multiple of 1/10 within 1/20 of it, the even one of the two if
\* it is halfway; so the inputs determine the result.
C10_CompTemp ==
    (pc = "harness_return" /\ CompTempCalls # <<>>) =>
        /\ Len(CpuReads) = 1 /\ Len(TempReads) = 1
        /\ LET f == CompTempCalls[1].val
               cpu == CpuReads[1].val
               raw == TempReads[1].val
               x == RSub(raw, RDiv(RSub(cpu, raw), f))
           IN  /\ IsTenth(retval)
               /\ WithinHalfTenth(x, retval)
               /\ RAbs(RSub(x, retval)) = Rat(1, 20)
                    => RMul(retval, FromInt(10))[1] % 2 = 0

\* comp_temp returned for a negative factor, and rounding changed the value
C10_Witness ==
    /\ pc = "harness_return" /\ CompTempCalls # <<>>
    /\ CompTempCalls[1].val = Rat(-2, 1)
    /\ retval # RSub(TempReads[1].val,
                     RDiv(RSub(CpuReads[1].val, TempReads[1].val), Rat(-2, 1)))

---------------------------------------------------------------------------
(* C11, C12: two calls of a compensation function compared. *)

\* a call as the caller keeps it: what was passed, what the devices read,
\* what came back
ThisCall == Append(trace, Call("return", retval))
OpOf(c)  == c[1].op
ArgOf(c) == c[1].val
ReadOf(c, op) == SelectSeq(c, LAMBDA e : e.op = op)[1].val
RetOf(c) == Last(c).val

\* comp_temp has returned twice in a row, for positive factors, the devices
\* having read the same both times
TwoCompTemps ==
    /\ pc = "harness_return" /\ last # None
    /\ OpOf(ThisCall) = "comp_temp" /\ OpOf(last) = "comp_temp"
    /\ ArgOf(last)[1] > 0 /\ ArgOf(ThisCall)[1] > 0
    /\ ReadOf(last, "get_cpu_temperature") = ReadOf(ThisCall, "get_cpu_temperature")
    /\ ReadOf(last, "bme280.get_temperature")
         = ReadOf(ThisCall, "bme280.get_temperature")

CpuOfCall == ReadOf(ThisCall, "get_cpu_temperature")
RawOfCall == ReadOf(ThisCall, "bme280.get_temperature")

TwoCompHumidities ==
    /\ pc = "harness_return" /\ last # None
    /\ OpOf(ThisCall) = "comp_humidity" /\ OpOf(last) = "comp_humidity"
    /\ ReadOf(last, "bme280.get_humidity") = ReadOf(ThisCall, "bme280.get_humidity")

\* C12, as claimed: for the same raw humidity, the results of two calls
\* differ by exactly the difference of their offsets.
C12_PureShift ==
    TwoCompHumidities =>
        RSub(RetOf(ThisCall), RetOf(last)) = RSub(ArgOf(ThisCall), ArgOf(last))

\* C12, amended: each call returns raw humidity plus offset rounded to one
\* decimal digit, so for the same raw humidity the results of two calls differ
\* by the difference of their offsets to within 0.1, not exactly.
C12_ShiftWithinATenth ==
    TwoCompHumidities =>
        /\ \A c \in {last, ThisCall} :
             /\ IsTenth(RetOf(c))
             /\ WithinHalfTenth(RAdd(ReadOf(c, "bme280.get_humidity"), ArgOf(c)),
                                RetOf(c))
        /\ RLeq(RAbs(RSub(RSub(RetOf(ThisCall), RetOf(last)),
                          RSub(ArgOf(ThisCall), ArgOf(last)))),
                Rat(1, 10))

\* offsets 0 and 0.35 on the same raw humidity: the results differ by some
\* tenths, not by 0.35
C12_Witness ==
    /\ TwoCompHumidities
    /\ ArgOf(last) = FromInt(0) /\ ArgOf(ThisCall) = Rat(7, 20)
    /\ RSub(RetOf(ThisCall), RetOf(last)) # Rat(7, 20)

---------------------------------------------------------------------------
(* C13 *)

\* the calls of `op` in the current sub-sample that returned a value
Returned(op) == SelectSeq(Calls(op), LAMBDA c : c.exc = "")

\* C13: once a sub-sample's gas read has returned, the sub-sample's element
\* of gos, grs and gns is the oxidising, reducing and nh3 reading of that
\* read divided by 1000 (1500 is kept as 1.5); once its pressure read has
\* returned, its element of pressures is that reading times 100 (1013.25 is
\* kept as 101325).
C13_UnitConverted ==
    /\ \A k \in 1 .. Len(Returned("gas.read_all")) :
         LET r == Returned("gas.read_all")[k].val
         IN  /\ Len(gos) = i + 1 /\ Len(grs) = i + 1 /\ Len(gns) = i + 1
             /\ RMul(gos[i + 1], FromInt(1000)) = r.oxidising
             /\ RMul(grs[i + 1], FromInt(1000)) = r.reducing
             /\ RMul(gns[i + 1], FromInt(1000)) = r.nh3
             /\ r.oxidising = FromInt(1500) => gos[i + 1] = Rat(15, 10)
    /\ \A k \in 1 .. Len(Returned("bme280.get_pressure")) :
         LET r == Returned("bme280.get_pressure")[k].val
         IN  /\ Len(pressures) = i + 1
             /\ RDiv(pressures[i + 1], FromInt(100)) = r
             /\ r = Rat(101325, 100) => pressures[i + 1] = FromInt(101325)

\* the second sub-sample has read oxidising 1500 and pressure 1013.25
C13_Witness ==
    /\ pc = "pms_read" /\ i = 1
    /\ Returned("gas.read_all")[1].val.oxidising = FromInt(1500)
    /\ Returned("bme280.get_pressure")[1].val = Rat(101325, 100)
    /\ gos[2] = Rat(15, 10)
    /\ pressures[2] = FromInt(101325)

---------------------------------------------------------------------------
(* C14 *)

\* the five gauges read_values sets
Gauges5 == <<gt, gh, gp, gp2, gp10>>

\* the list each publish step averages
ListOf(step) ==
    CASE step = "set_gt"   -> temps
      [] step = "set_gh"   -> humidities
      [] step = "set_gp"   -> pressures
      [] step = "set_gp2"  -> pm2s
      [] step = "set_gp10" -> pm10s

\* the position in Gauges5 of the gauge each publish step sets
GaugeOf(step) ==
    CASE step = "set_gt"   -> 1
      [] step = "set_gh"   -> 2
      [] step = "set_gp"   -> 3
      [] step = "set_gp2"  -> 4
      [] step = "set_gp10" -> 5

\* C14: a step changes a gauge only if it is a publish step, taken after the
\* five sub-samples; a publish step sets its own gauge to the mean of its list
\* whatever the gauge held, leaves the other four alone, and is the
\* GaugeOf(step)-th set of the cycle, so that a completed cycle has set each
\* of the five gauges once; outside the publish steps, and when the process
\* ends on a fatal failure, the gauges hold what the last completed cycle
\* published (or their initial value, 0).
C14_WrittenOncePerCycle ==
    [][ /\ pc \notin PublishSteps =>
             /\ gauges' = gauges
             /\ pc # "read_values_return" => Gauges5 = published
        /\ pc \in PublishSteps =>
             /\ i = SubSamples - 1 /\ Len(ListOf(pc)) = SubSamples
             /\ gaugeSets = GaugeOf(pc) - 1 /\ gaugeSets' = GaugeOf(pc)
             /\ Gauges5' = [Gauges5 EXCEPT ![GaugeOf(pc)] = Average(ListOf(pc))]
             /\ <<go, gr, gn>>' = <<go, gr, gn>>
        /\ pc' = "read_values_return" => gaugeSets' = 5 /\ Gauges5' = published'
        /\ pc' = "terminated" => Gauges5' = published /\ gauges' = gauges
      ]_vars

\* a cycle has published, and a later one has been cut short by a fatal
\* failure after its third sub-sample: the gauges hold the published values
C14_Witness ==
    /\ pc = "terminated" /\ i = 3
    /\ gt # Zero /\ Gauges5 = published

---------------------------------------------------------------------------
(* C15 *)

Sleeps == Calls("time.sleep")

\* C15: when a sub-sample is complete (the loop is about to take its next
\* turn) it has slept exactly once, for 1 second, as its last call, right
\* after the particulate read whose values it appended; the cycle has then
\* slept once per completed sub-sample, 5 times when it publishes; and no
\* other step sleeps: before its particulate values are appended a sub-sample
\* has not slept, and between the fifth sleep of a cycle and the first of the
\* next the count of the cycle does not move.
C15_OnePausePerSubSample ==
    /\ (pc = "for_i" /\ i >= 0) =>
          /\ Len(Sleeps) = 1
          /\ Last(trace) = Call("time.sleep", FromInt(1))
          /\ trace[Len(trace) - 1].op = "pms5003.read"
          /\ trace[Len(trace) - 1].val = pm_values
          /\ Len(pm10s) = i + 1 /\ Len(pm2s) = i + 1
          /\ pauses = i + 1
    /\ (pc = "for_i" /\ i = -1) => pauses = 0
    /\ pc \in PublishSteps \cup {"read_values_return"} => pauses = SubSamples
    /\ pc \notin PublishSteps \cup {"read_values_return", "for_i", "while_true",
                                    "start_http_server", "log_startup"} =>
          /\ Len(Sleeps) = 0
          /\ pauses = i

\* the fourth sub-sample went through reset-and-retry and has slept once
C15_Witness ==
    /\ pc = "for_i" /\ i = 3 /\ Retried
    /\ Len(Sleeps) = 1 /\ pauses = 4

---------------------------------------------------------------------------
(* C16 *)

\* the steps at which the current sub-sample is over: it has appended its
\* particulate values (and the loop or the publish steps follow), or the
\* process has ended
SubSampleOver ==
    pc \in {"sleep", "for_i", "read_values_return", "terminated"} \cup PublishSteps

\* C16: whatever the devices do, a sub-sample makes at most two particulate
\* reads and at most one reset; a reset comes right after the sub-sample's
\* first particulate read, which raised ReadTimeoutError or
\* ChecksumMismatchError, and the second read is what follows it; once a
\* second read has been made the sub-sample is over: the read's values were
\* appended, or the process has ended with the exception it raised.
C16_BoundedRetry ==
    /\ Len(PmReads) <= 2
    /\ Len(PmResets) <= 1
    /\ \A j \in 1 .. Len(trace) :
         trace[j].op = "pms5003.reset" =>
             /\ j > 1
             /\ trace[j - 1] = PmReads[1]
             /\ trace[j - 1].exc \in TransientErrors
             /\ j < Len(trace) => trace[j + 1] = PmReads[2]
    /\ Len(PmReads) = 2 =>
         /\ Len(PmResets) = 1
         /\ SubSampleOver
         /\ \/ /\ PmReads[2].exc = ""
               /\ pc # "terminated"
               /\ Len(pm10s) = i + 1 /\ Len(pm2s) = i + 1
               /\ Last(pm10s) = PmReads[2].val.pm10
            \/ /\ PmReads[2].exc # ""
               /\ pc = "terminated" /\ exc = PmReads[2].exc

\* a timeout, a reset, and a second read that fails with an error of another
\* kind: the process has ended after one reset-and-retry
C16_Witness ==
    /\ pc = "terminated"
    /\ Len(PmReads) = 2 /\ Len(PmResets) = 1
    /\ PmReads[1].exc = "ReadTimeoutError"
    /\ PmReads[2].exc \notin TransientErrors \cup {""}

---------------------------------------------------------------------------
(* C17 *)

\* C17: when a cycle starts (read_values has been entered and its loop has
\* not taken a turn) each of the 8 lists is empty, whatever the cycles before
\* it did; while it runs no list has more elements than sub-samples were
\* started in it; and what it publishes is, gauge by gauge, the mean of the
\* list's 5 elements, the value the gauge held from an earlier cycle playing
\* no part.
C17_CycleStartsEmpty ==
    /\ (pc = "for_i" /\ i = -1) =>
          \A k \in 1..8 : Sequences8[k] = <<>>
    /\ pc \notin {"start_http_server", "log_startup", "while_true"} =>
          \A k \in 1..8 : Len(Sequences8[k]) <= i + 1
    /\ Published =>
          /\ \A k \in 1..8 : Len(Sequences8[k]) = SubSamples
          /\ Gauges5 = <<Average(temps), Average(humidities), Average(pressures),
                         Average(pm2s), Average(pm10s)>>
          /\ published = Gauges5

\* a cycle that follows a completed one is publishing: its temperature and
\* humidity means differ from the ones published before
C17_Witness ==
    /\ pc = "set_gp"
    /\ published[1] # Zero
    /\ gt = Average(temps) /\ gh = Average(humidities)
    /\ gt # published[1] \/ gh # published[2]

---------------------------------------------------------------------------
(* C18 *)

\* C18: a sub-sample comes to its particulate read having made no particulate
\* read and no reset of its own, and, if the sensor fails in this behaviour, a
\* transient failure of that read is handled (the handler is entered) however
\* many resets the cycle has issued before; the cycle has issued at most one
\* reset per sub-sample started, and when it has issued one for every
\* sub-sample completed so far the sub-sample just completed was retried; a
\* cycle that issued 5 resets publishes the means of its 5-element lists like
\* any other.
C18_RetryPerSubSample ==
    /\ pc = "pms_read" =>
          /\ Len(PmReads) = 0 /\ Len(PmResets) = 0
          /\ resets <= i
          /\ PmFaults # {} => ENABLED (PmsRead /\ pc' = "except_log")
    /\ pc \notin {"start_http_server", "log_startup", "while_true"} =>
          resets <= i + 1
    /\ (pc = "for_i" /\ i >= 0 /\ resets = i + 1) => Retried
    /\ (Published /\ resets = SubSamples) =>
          /\ \A k \in 1..8 : Len(Sequences8[k]) = SubSamples
          /\ gp2 = Average(pm2s) /\ gp10 = Average(pm10s)
          /\ gt = Average(temps) /\ gh = Average(humidities)
          /\ gp = Average(pressures)
          /\ exc = ""

\* every sub-sample of the cycle was retried, and the cycle has published
C18_Witness ==
    /\ Published /\ resets = 5 /\ Retried
    /\ gp10 = Average(pm10s) /\ gp10 # Zero

---------------------------------------------------------------------------
(* C19 *)

\* C19: when sub-sample k of a cycle is complete (k = i + 1, the loop is
\* about to take its next turn) each of the 8 lists has exactly k elements;
\* pm10s and pm2s have the same length in every state; while a sub-sample is
\* in its handler, its first read having failed, the two lists still have
\* k - 1 elements; and a sub-sample that went through reset-and-retry has
\* added one element to each, the second read's value.
C19_ListsGrowTogether ==
    /\ (pc = "for_i" /\ i >= 0) =>
          \A k \in 1..8 : Len(Sequences8[k]) = i + 1
    /\ Len(pm10s) = Len(pm2s)
    /\ pc \in {"except_log", "pms_reset", "pms_reread"} =>
          Len(pm10s) = i /\ Len(pm2s) = i
    /\ Retried =>
          /\ Len(pm10s) = i + 1 /\ Len(pm2s) = i + 1
          /\ pm10s[i + 1] = pm_ug_per_m3(PmReads[2].val, FromInt(10))
          /\ pm2s[i + 1] = pm_ug_per_m3(PmReads[2].val, Rat(5, 2))

\* the third sub-sample went through reset-and-retry and is complete: 3
\* elements in each list
C19_Witness ==
    /\ pc = "for_i" /\ i = 2 /\ Retried
    /\ \A k \in 1..8 : Len(Sequences8[k]) = 3

---------------------------------------------------------------------------
(* C20 *)

\* the lists the five gauges are set from, in the order of Gauges5
Lists5 == <<temps, humidities, pressures, pm2s, pm10s>>

===========================================================================
